---- MODULE Spec2Model ----
(***************************************************************************)
(* Model of bitunix_to_tradezella.py: the incremental export of futures    *)
(* trades.  One run of main() is a sequence of steps (load_credentials,    *)
(* BitunixClient.__init__, load_state, one step per page request of        *)
(* fetch_trades, transform_trades, the CSV write, save_state).  The        *)
(* environment is the credentials file, the state file, and the remote     *)
(* trade list with its paging behaviour and its failures.                  *)
(***************************************************************************)
EXTENDS Integers, Sequences, FiniteSets, TLC

\* ---------------------------------------------------------------- bounds
\* Largest number of trades the remote ever holds.
MaxRemote == 3
\* Creation timestamps (ms) are drawn from 1..MaxTime.
MaxTime == 2
\* Page size of fetch_trades (limit = 100 in the source), scaled down.
Limit == 2

\* ------------------------------------------------------------- variables
VARIABLES
  cred,        \* contents of credentials.json
  stateFile,   \* contents of last_export_state.json
  remote,      \* the exchange's trade list, in the order it is served
  srvFilter,   \* how the exchange applies startTime: "none" or "inclusive"
  pc,          \* position of the current run of main()
  last_time,   \* main: value returned by load_state
  trades,      \* fetch_trades: accumulated trades
  skip,        \* fetch_trades: paging offset
  rows,        \* main: result of transform_trades
  outFile,     \* rows written to the output file of the current run
  outClosed,   \* the output file of the current run has been closed
  netCalls,    \* GET requests issued by the current run
  res,         \* how the current run ended ("" while it is running)
  obs,         \* observations of the current run (pages seen, failures)
  prev,        \* summary of the run before the current one
  exported,    \* ids of the trades written to output files by earlier runs
               \* (kept while clean holds)
  clean,       \* every earlier run that wrote output also saved its checkpoint
  req,         \* fetch_trades: the GET request of the latest iteration
  sg,          \* two calls of sign_request: their inputs and results
  race         \* two runs of main() started at the same time

vars == <<cred, stateFile, remote, srvFilter, pc, last_time, trades, skip,
          rows, outFile, outClosed, netCalls, res, obs, prev, exported, clean,
          req, sg, race>>

\* ---------------------------------------------------------------- helpers
SetMax(S) == CHOOSE x \in S : \A y \in S : y <= x

SetMin(S) == CHOOSE x \in S : \A y \in S : x <= y

Min2(a, b) == IF a <= b THEN a ELSE b

Times == 1..MaxTime

Trade(i, c) == [id |-> i, ctime |-> c]

\* The trade lists of the exchange: newest first, ids in order of creation,
\* creation timestamps in any order.
RemoteLists ==
  UNION {{[i \in 1..n |-> Trade(n + 1 - i, f[i])] : f \in [1..n -> Times]} : n \in 0..MaxRemote}

\* ------------------------------------------------------ credentials file
NoStart == [fmt |-> "none", ms |-> 0]

BadStart == [fmt |-> "bad", ms |-> 0]

IsoStart(ms) == [fmt |-> "iso", ms |-> ms]

CredFile(e, a, s, st) == [exists |-> e, api_key |-> a, secret_key |-> s, start_time |-> st]

CredFiles ==
  { CredFile(FALSE, "", "", NoStart),
    CredFile(TRUE, "", "secret", NoStart),
    CredFile(TRUE, "key", "", NoStart),
    CredFile(TRUE, "key", "secret", NoStart),
    CredFile(TRUE, "key", "secret", BadStart),
    CredFile(TRUE, "key", "secret", IsoStart(1)) }

\* Python truthiness of an optional string: None and "" are falsy.
Falsy(s) == s = ""

\* load_credentials raises (FileNotFoundError or KeyError).
LoadCredentialsRaises ==
  \/ ~cred.exists
  \/ Falsy(cred.api_key) \/ Falsy(cred.secret_key)

\* BitunixClient.__init__ raises ValueError.
ClientInitRaises == Falsy(cred.api_key) \/ Falsy(cred.secret_key)

\* ------------------------------------------------------------ state file
Absent == [kind |-> "absent", last_time |-> 0]

NoKey == [kind |-> "nokey", last_time |-> 0]

Saved(t) == [kind |-> "val", last_time |-> t]

\* The state files a run can find: none, or one that an earlier run wrote.
StateFiles == {Absent} \cup {Saved(t) : t \in Times}

\* datetime.fromisoformat(...).timestamp() * 1000 of a well-formed instant.
IsoToMs(st) == st.ms

LoadStateNeverRaises == FALSE

\* load_state raises ValueError: no state file and a malformed start_time.
LoadStateRaises ==
  /\ stateFile.kind = "absent"
  /\ cred.exists
  /\ cred.start_time.fmt = "bad"

LoadStateValueConfigFirst ==
  IF cred.exists /\ cred.start_time.fmt = "iso" THEN IsoToMs(cred.start_time)
  ELSE IF stateFile.kind = "val" THEN stateFile.last_time
  ELSE 0

\* The value load_state returns when it does not raise.
LoadStateValue ==
  IF stateFile.kind = "val" THEN stateFile.last_time
  ELSE IF stateFile.kind = "nokey" THEN 0
  ELSE IF cred.exists /\ cred.start_time.fmt = "iso" THEN IsoToMs(cred.start_time)
  ELSE 0

\* ------------------------------------------------------------ the remote
\* The list the exchange pages through for a request with this startTime.
ServerView(start) ==
  IF srvFilter = "inclusive"
  THEN SelectSeq(remote, LAMBDA tr : tr.ctime >= start)
  ELSE remote

\* data.tradeList of the response to GET {startTime, skip, limit}.
Page(start, sk) ==
  LET v == ServerView(start)
  IN  SubSeq(v, sk + 1, Min2(sk + Limit, Len(v)))

\* ---------------------------------------------------------- fetch_trades
\* (variants of the code, used to test that the properties depend on it)
KeepInclusive(tr, start) == tr.ctime >= start

KeepAll(tr, start) == TRUE

\* The client-side filter: `if ctime > start_time`.
Keep(tr, start) == tr.ctime > start

\* The entries of a page that are appended to `trades`.
Kept(page, start) == SelectSeq(page, LAMBDA tr : Keep(tr, start))

LastPageLeq(page) == Len(page) <= Limit

LastPageNever(page) == FALSE

\* `if len(page) < limit: break`.
LastPage(page) == Len(page) < Limit

NextSkipKept(sk, page) == sk + Len(Kept(page, last_time))

\* `skip += len(page)`
NextSkip(sk, page) == sk + Len(page)

\* secrets.token_hex(8): 8 random bytes.
NonceBytes == 8

\* token_hex prints each byte as two hexadecimal digits.
TokenHexLen(nbytes) == nbytes + nbytes

\* The nonce of request n: its length in hex digits, and the iteration in
\* which it was drawn.
Nonce(n) == [hex |-> TokenHexLen(NonceBytes), gen |-> n]

NoReq == [n |-> 0, startTime |-> -1, skip |-> 0, limit |-> 0,
          nonce |-> [hex |-> 0, gen |-> 0], before |-> 0, len |-> 0]

\* Entries received in the pages up to and including the latest response.
Received == req.before + (IF req.len > 0 THEN req.len ELSE 0)

\* The GET request of one iteration: params, the nonce header, and (ghost)
\* the entries received before it; len is the size of the page it returns,
\* -1 when it fails.
Request(start, sk) ==
  [n |-> netCalls + 1, startTime |-> start, skip |-> sk, limit |-> Limit,
   nonce |-> Nonce(netCalls + 1), before |-> Received, len |-> -1]

\* ------------------------------------------------------ transform_trades
MsPerSec == 1000

\* tr.get(k, ''): a raw trade is a dict, which may lack any of its keys.
Get(tr, k) == IF k \in DOMAIN tr THEN tr[k] ELSE ""

\* int(tr.get('ctime', 0))
CtimeOf(tr) == IF "ctime" \in DOMAIN tr THEN tr.ctime ELSE 0

\* str.upper() of the sides the exchange reports.
Upper(x) == IF x = "buy" THEN "BUY" ELSE IF x = "sell" THEN "SELL" ELSE x

InsertAtEnd(s, tr) == Append(s, tr)

\* Insert tr into a list sorted by ctime, after every entry that is not later.
InsertByCtime(s, tr) ==
  LET n == Cardinality({i \in 1..Len(s) : CtimeOf(s[i]) <= CtimeOf(tr)})
  IN  SubSeq(s, 1, n) \o <<tr>> \o SubSeq(s, n + 1, Len(s))

RECURSIVE SortedByCtime(_)
\* sorted(trades, key=ctime): a stable sort.
SortedByCtime(s) ==
  IF s = <<>> THEN <<>>
  ELSE InsertByCtime(SortedByCtime(SubSeq(s, 1, Len(s) - 1)), s[Len(s)])

\* One output row.  Time is the text of the Date and Time columns, written
\* as the list of the second they show (a blank cell would be <<>>); the
\* constant columns are left out; src is a ghost link to the raw trade the
\* row was made from.
Row(tr) ==
  [Time |-> <<CtimeOf(tr) \div MsPerSec>>,
   Symbol |-> Get(tr, "symbol"),
   Side |-> Upper(Get(tr, "side")),
   Quantity |-> Get(tr, "qty"),
   Price |-> Get(tr, "price"),
   Commission |-> Get(tr, "fee"),
   src |-> tr]

transform_trades(ts) ==
  LET s == SortedByCtime(ts) IN [i \in 1..Len(s) |-> Row(s[i])]

\* ------------------------------------------------------------------ main
LatestTimeMin(ts) == SetMin({ts[i].ctime : i \in 1..Len(ts)})

LatestTimeLast(ts) == ts[Len(ts)].ctime

\* latest_time = max(int(t['ctime']) for t in new_trades)
LatestTime(ts) == SetMax({ts[i].ctime : i \in 1..Len(ts)})

\* The trades whose rows are in a file.
Sources(file) == [i \in 1..Len(file) |-> file[i].src]

Ids(ts) == {ts[i].id : i \in 1..Len(ts)}

NoObs == [fail |-> "", fpSeen |-> FALSE, fpOld |-> FALSE, fpLen |-> 0,
          ckpt0 |-> Absent, grew |-> FALSE]

NoPrev == [res |-> "", start |-> -1, fail |-> "", grew |-> FALSE]

\* The run ends: main returns, or its except clause logs the error.
Finish(r) ==
  /\ pc' = "done"
  /\ res' = r

\* ---------------------------------------------------------- sign_request
\* Strings are sequences of bytes (ASCII codes).
\* Longest nonce and longest query key.
MaxStr == 1
\* Longest request body.
MaxBody == 2

\* '1' and '2'.
Digits == {49, 50}

\* Tab and space: whitespace that json.loads skips.
Blanks == {9, 32}

\* The bytes of the bodies considered: JSON numbers written with the digit
\* '1', with whitespace around them.
BodyBytes == Blanks \cup {49}

\* The non-empty strings over A of length at most n.
Strs(A, n) == UNION {[1..k -> A] : k \in 1..n}

\* One item of query_params: a key and a one-digit value.
Pairs == {<<k, <<v>>>> : k \in Strs(Digits, MaxStr), v \in Digits}

\* query_params: a dict, written as the list of its items in insertion
\* order; None or {} is the empty list.
Dicts ==
  {<<>>} \cup {<<p>> : p \in Pairs}
        \cup {d \in {<<p, q>> : p, q \in Pairs} : d[1][1] # d[2][1]}

\* The arguments of one call; body <<>> is None or "".
SignInputs ==
  [nonce : Strs(Digits, MaxStr), timestamp : {<<d>> : d \in Digits},
   params : Dicts, body : {<<>>} \cup Strs(BodyBytes, MaxBody)]

\* a < b for Python strings.
LexLess(a, b) ==
  \E i \in 1..(Min2(Len(a), Len(b)) + 1) :
    /\ \A j \in 1..(i - 1) : a[j] = b[j]
    /\ IF i <= Min2(Len(a), Len(b)) THEN a[i] < b[i] ELSE Len(a) < Len(b)

InsertByKey(s, p) ==
  LET n == Cardinality({i \in 1..Len(s) : LexLess(s[i][1], p[1])})
  IN  SubSeq(s, 1, n) \o <<p>> \o SubSeq(s, n + 1, Len(s))

UnsortedItems(d) == d

RECURSIVE SortedItems(_)
\* sorted(query_params.items())
SortedItems(d) ==
  IF d = <<>> THEN <<>>
  ELSE InsertByKey(SortedItems(SubSeq(d, 1, Len(d) - 1)), d[Len(d)])

RECURSIVE Join(_)
\* ''.join(parts)
Join(parts) ==
  IF parts = <<>> THEN <<>> ELSE parts[1] \o Join(Tail(parts))

\* ''.join(f"{k}{v}" for k, v in sorted(query_params.items()))
QueryString(d) ==
  LET s == SortedItems(d) IN Join([i \in 1..Len(s) |-> s[i][1] \o s[i][2]])

\* json.dumps(json.loads(body), separators=(',', ':')) of a valid body.
Canon(body) == SelectSeq(body, LAMBDA c : c \notin Blanks)

\* json.loads(body) raises: no value, or whitespace inside the number.
BodyInvalid(body) ==
  /\ body # <<>>
  /\ \/ Canon(body) = <<>>
     \/ \E i, j, k \in 1..Len(body) :
          i < j /\ j < k /\ body[i] \notin Blanks /\ body[j] \in Blanks
                /\ body[k] \notin Blanks

\* self.api_key as bytes ('K' stands for the configured key id).
KeyBytes(k) == IF k = "" THEN <<>> ELSE <<75>>

MessageNoTimestamp(x) ==
  x.nonce \o KeyBytes(cred.api_key) \o QueryString(x.params) \o Canon(x.body)

\* message = f"{nonce}{timestamp}{self.api_key}{query_string}{body}"
Message(x) ==
  x.nonce \o x.timestamp \o KeyBytes(cred.api_key) \o QueryString(x.params)
          \o Canon(x.body)

\* hashlib.sha256(...).hexdigest(), taken to be injective.
Sha256(m) == [sha256 |-> m]

\* sign_request(nonce, timestamp, query_params, body): the signature, or
\* ok = FALSE when json.loads raises.
sign_request(x) ==
  IF BodyInvalid(x.body)
  THEN [ok |-> FALSE, sign |-> Sha256(<<>>)]
  ELSE [ok |-> TRUE, sign |-> Sha256(<<Sha256(Message(x)), cred.secret_key>>)]

\* The inputs that differ from x in one byte: field f, old and new byte.
OneByteEdits(x) ==
  LET nonceE == {[b |-> [x EXCEPT !.nonce[j] = c], f |-> "nonce",
                  old |-> x.nonce[j], new |-> c] :
                   j \in 1..Len(x.nonce), c \in Digits}
      timeE  == {[b |-> [x EXCEPT !.timestamp[j] = c], f |-> "timestamp",
                  old |-> x.timestamp[j], new |-> c] :
                   j \in 1..Len(x.timestamp), c \in Digits}
      valueE == {[b |-> [x EXCEPT !.params[i][2][1] = c], f |-> "value",
                  old |-> x.params[i][2][1], new |-> c] :
                   i \in 1..Len(x.params), c \in Digits}
      keyE   == UNION {{[b |-> [x EXCEPT !.params[i][1][j] = c], f |-> "key",
                         old |-> x.params[i][1][j], new |-> c] :
                          j \in 1..Len(x.params[i][1]), c \in Digits} :
                       i \in 1..Len(x.params)}
      bodyE  == {[b |-> [x EXCEPT !.body[j] = c], f |-> "body",
                  old |-> x.body[j], new |-> c] :
                   j \in 1..Len(x.body), c \in BodyBytes}
  IN  {e \in nonceE \cup timeE \cup valueE \cup keyE \cup bodyE :
         /\ e.old # e.new
         /\ \A i, j \in 1..Len(e.b.params) :
              i # j => e.b.params[i][1] # e.b.params[j][1]}

\* The same dict with its items inserted in another order.
Reorderings(d) ==
  {e \in Dicts : e # d /\ {e[i] : i \in 1..Len(e)} = {d[i] : i \in 1..Len(d)}}

\* No call of sign_request is under study.
NoSig == [st |-> "none"]

\* A single run of main(): no second process.
NoRace == [st |-> "none"]

Init ==
  /\ cred \in CredFiles
  /\ stateFile \in StateFiles
  /\ remote \in RemoteLists
  /\ srvFilter \in {"none", "inclusive"}
  /\ pc = "idle"
  /\ last_time = -1
  /\ trades = <<>>
  /\ skip = 0
  /\ rows = <<>>
  /\ outFile = <<>>
  /\ outClosed = FALSE
  /\ netCalls = 0
  /\ res = ""
  /\ obs = NoObs
  /\ prev = NoPrev
  /\ exported = {}
  /\ clean = TRUE
  /\ req = NoReq
  /\ sg = NoSig
  /\ race = NoRace

\* main() is started; the run before it, if any, is summarised.
StartRun ==
  /\ pc \in {"idle", "done"}
  /\ pc' = "creds"
  /\ last_time' = -1
  /\ trades' = <<>>
  /\ skip' = 0
  /\ rows' = <<>>
  /\ outFile' = <<>>
  /\ outClosed' = FALSE
  /\ netCalls' = 0
  /\ res' = ""
  /\ obs' = [NoObs EXCEPT !.ckpt0 = stateFile]
  /\ IF pc = "done"
     THEN /\ prev' = [res |-> res, start |-> last_time,
                      fail |-> obs.fail, grew |-> obs.grew]
          /\ clean' = (clean /\ res \notin {"write_error", "save_error"})
          /\ exported' = IF clean' THEN exported \cup Ids(Sources(outFile)) ELSE {}
     ELSE UNCHANGED <<prev, exported, clean>>
  /\ UNCHANGED <<cred, stateFile, remote, srvFilter>>
  /\ req' = NoReq
  /\ UNCHANGED <<sg, race>>

\* load_credentials raises; main logs the error and returns.
LoadCredentialsFail ==
  /\ pc = "creds"
  /\ LoadCredentialsRaises
  /\ Finish("config_error")
  /\ UNCHANGED <<cred, stateFile, remote, srvFilter, last_time, trades, skip,
                 rows, outFile, outClosed, netCalls, obs, prev, exported, clean>>
  /\ UNCHANGED <<req, sg, race>>

LoadCredentialsOk ==
  /\ pc = "creds"
  /\ ~LoadCredentialsRaises
  /\ pc' = "client"
  /\ UNCHANGED <<cred, stateFile, remote, srvFilter, last_time, trades, skip,
                 rows, outFile, outClosed, netCalls, res, obs, prev, exported,
                 clean>>
  /\ UNCHANGED <<req, sg, race>>

\* BitunixClient(api_key, secret_key)
ClientInit ==
  /\ pc = "client"
  /\ IF ClientInitRaises
     THEN Finish("config_error")
     ELSE pc' = "load" /\ UNCHANGED res
  /\ UNCHANGED <<cred, stateFile, remote, srvFilter, last_time, trades, skip,
                 rows, outFile, outClosed, netCalls, obs, prev, exported, clean>>
  /\ UNCHANGED <<req, sg, race>>

\* load_state raises; main logs the error and returns.
LoadStateFail ==
  /\ pc = "load"
  /\ LoadStateRaises
  /\ Finish("config_error")
  /\ UNCHANGED <<cred, stateFile, remote, srvFilter, last_time, trades, skip,
                 rows, outFile, outClosed, netCalls, obs, prev, exported, clean>>
  /\ UNCHANGED <<req, sg, race>>

\* last_time = load_state(); fetch_trades(last_time) is entered.
LoadStateOk ==
  /\ pc = "load"
  /\ ~LoadStateRaises
  /\ last_time' = LoadStateValue
  /\ trades' = <<>>
  /\ skip' = 0
  /\ pc' = "fetch"
  /\ UNCHANGED <<cred, stateFile, remote, srvFilter, rows, outFile, outClosed,
                 netCalls, res, obs, prev, exported, clean>>
  /\ UNCHANGED <<req, sg, race>>

\* What the run saw of its first page.
SeeFirstPage(page) ==
  IF netCalls = 0
  THEN [obs EXCEPT !.fpSeen = TRUE, !.fpLen = Len(page),
                   !.fpOld = \A i \in 1..Len(page) : page[i].ctime <= last_time]
  ELSE obs

\* One iteration of the loop of fetch_trades whose request succeeds.
FetchPageOk ==
  /\ pc = "fetch"
  /\ LET page == Page(last_time, skip)
     IN  /\ netCalls' = netCalls + 1
         /\ obs' = SeeFirstPage(page)
         /\ req' = [Request(last_time, skip) EXCEPT !.len = Len(page)]
         /\ IF page = <<>>
            THEN /\ pc' = "fetched"
                 /\ UNCHANGED <<trades, skip>>
            ELSE /\ trades' = trades \o Kept(page, last_time)
                 /\ skip' = NextSkip(skip, page)
                 /\ pc' = IF LastPage(page) THEN "fetched" ELSE "fetch"
  /\ UNCHANGED <<cred, stateFile, remote, srvFilter, last_time, rows, outFile,
                 outClosed, res, prev, exported, clean>>
  /\ UNCHANGED <<sg, race>>

\* One iteration whose request fails: an error field in the payload, an HTTP
\* error status, a body that is not JSON, or a transport exception.  Each
\* handler logs and breaks.
FetchPageFailDiscards ==
  /\ pc = "fetch"
  /\ netCalls' = netCalls + 1
  /\ obs' = [obs EXCEPT !.fail = "page"]
  /\ req' = Request(last_time, skip)
  /\ pc' = "fetched"
  /\ trades' = <<>>
  /\ UNCHANGED <<cred, stateFile, remote, srvFilter, last_time, skip,
                 rows, outFile, outClosed, res, prev, exported, clean>>
  /\ UNCHANGED <<sg, race>>

FetchPageFail ==
  /\ pc = "fetch"
  /\ netCalls' = netCalls + 1
  /\ obs' = [obs EXCEPT !.fail = "page"]
  /\ req' = Request(last_time, skip)
  /\ pc' = "fetched"
  /\ UNCHANGED <<cred, stateFile, remote, srvFilter, last_time, trades, skip,
                 rows, outFile, outClosed, res, prev, exported, clean>>
  /\ UNCHANGED <<sg, race>>

\* One iteration whose page holds a malformed entry at position k: int() or
\* .get raises inside the for loop, after the entries before k were handled.
FetchPageBadEntry ==
  /\ pc = "fetch"
  /\ LET page == Page(last_time, skip)
     IN  /\ \E k \in 1..Len(page) :
              trades' = trades \o Kept(SubSeq(page, 1, k - 1), last_time)
         /\ req' = [Request(last_time, skip) EXCEPT !.len = Len(page)]
  /\ netCalls' = netCalls + 1
  /\ obs' = [obs EXCEPT !.fail = "entry"]
  /\ pc' = "fetched"
  /\ UNCHANGED <<cred, stateFile, remote, srvFilter, last_time, skip, rows,
                 outFile, outClosed, res, prev, exported, clean>>
  /\ UNCHANGED <<sg, race>>

\* `if not new_trades: return`
MainNoTrades ==
  /\ pc = "fetched"
  /\ trades = <<>>
  /\ Finish("no_trades")
  /\ UNCHANGED <<cred, stateFile, remote, srvFilter, last_time, trades, skip,
                 rows, outFile, outClosed, netCalls, obs, prev, exported, clean>>
  /\ UNCHANGED <<req, sg, race>>

\* rows = transform_trades(new_trades)
Transform ==
  /\ pc = "fetched"
  /\ trades # <<>>
  /\ rows' = transform_trades(trades)
  /\ pc' = "write"
  /\ UNCHANGED <<cred, stateFile, remote, srvFilter, last_time, trades, skip,
                 outFile, outClosed, netCalls, res, obs, prev, exported, clean>>
  /\ UNCHANGED <<req, sg, race>>

\* The with block: header and all rows are written and the file is closed.
WriteOutput ==
  /\ pc = "write"
  /\ outFile' = rows
  /\ outClosed' = TRUE
  /\ pc' = "save"
  /\ UNCHANGED <<cred, stateFile, remote, srvFilter, last_time, trades, skip,
                 rows, netCalls, res, obs, prev, exported, clean>>
  /\ UNCHANGED <<req, sg, race>>

WriteFailSwallowed ==
  /\ pc = "write"
  /\ \E k \in 0..(Len(rows) - 1) : outFile' = SubSeq(rows, 1, k)
  /\ outClosed' = TRUE
  /\ pc' = "save"
  /\ UNCHANGED <<cred, stateFile, remote, srvFilter, last_time, trades, skip,
                 rows, netCalls, res, obs, prev, exported, clean>>
  /\ UNCHANGED <<req, sg, race>>

\* The with block raises after k rows were written (the file is closed on
\* the way out); main logs the error and returns.
WriteFail ==
  /\ pc = "write"
  /\ \E k \in 0..(Len(rows) - 1) : outFile' = SubSeq(rows, 1, k)
  /\ outClosed' = TRUE
  /\ Finish("write_error")
  /\ UNCHANGED <<cred, stateFile, remote, srvFilter, last_time, trades, skip,
                 rows, netCalls, obs, prev, exported, clean>>
  /\ UNCHANGED <<req, sg, race>>

\* save_state(latest_time)
SaveState ==
  /\ pc = "save"
  /\ stateFile' = Saved(LatestTime(trades))
  /\ Finish("ok")
  /\ UNCHANGED <<cred, remote, srvFilter, last_time, trades, skip, rows,
                 outFile, outClosed, netCalls, obs, prev, exported, clean>>
  /\ UNCHANGED <<req, sg, race>>

\* save_state raises (the state file cannot be opened for writing).
SaveFail ==
  /\ pc = "save"
  /\ Finish("save_error")
  /\ UNCHANGED <<cred, stateFile, remote, srvFilter, last_time, trades, skip,
                 rows, outFile, outClosed, netCalls, obs, prev, exported, clean>>
  /\ UNCHANGED <<req, sg, race>>

\* The account trades: a new trade appears at the head of the exchange's
\* list.  The program reads the list only in fetch_trades, so the trade appears
\* between two runs or between two page requests of one call.
AddTrade ==
  /\ pc = "done" \/ (pc = "fetch" /\ netCalls > 0)
  /\ Len(remote) < MaxRemote
  /\ \E c \in Times : remote' = <<Trade(Len(remote) + 1, c)>> \o remote
  /\ obs' = [obs EXCEPT !.grew = TRUE]
  /\ UNCHANGED <<cred, stateFile, srvFilter, pc, last_time, trades, skip, rows,
                 outFile, outClosed, netCalls, res, prev, exported, clean>>
  /\ UNCHANGED <<req, sg, race>>

Next ==
  \/ StartRun
  \/ LoadCredentialsFail
  \/ LoadCredentialsOk
  \/ ClientInit
  \/ LoadStateFail
  \/ LoadStateOk
  \/ FetchPageOk
  \/ FetchPageFail
  \/ FetchPageBadEntry
  \/ MainNoTrades
  \/ Transform
  \/ WriteOutput
  \/ WriteFail
  \/ SaveState
  \/ SaveFail
  \/ AddTrade

Spec == Init /\ [][Next]_vars

\* ------------------------------------------------- fetch_trades on its own
\* One call fetch_trades(since_timestamp), with any since_timestamp, any
\* remote list and either paging behaviour of the exchange.
InitFetch ==
  /\ cred = CredFile(TRUE, "key", "secret", NoStart)
  /\ stateFile = Absent
  /\ remote \in RemoteLists
  /\ srvFilter \in {"none", "inclusive"}
  /\ pc = "fetch"
  /\ last_time \in 0..MaxTime
  /\ trades = <<>>
  /\ skip = 0
  /\ rows = <<>>
  /\ outFile = <<>>
  /\ outClosed = FALSE
  /\ netCalls = 0
  /\ res = ""
  /\ obs = NoObs
  /\ prev = NoPrev
  /\ exported = {}
  /\ clean = TRUE
  /\ req = NoReq
  /\ sg = NoSig
  /\ race = NoRace

NextFetch ==
  \/ FetchPageOk
  \/ FetchPageFail
  \/ FetchPageBadEntry
  \/ AddTrade

SpecFetch == InitFetch /\ [][NextFetch]_vars

\* One iteration of the loop, whatever its outcome.
FetchStep == FetchPageOk \/ FetchPageFail \/ FetchPageBadEntry

\* The loop is sequential code and every request is answered or fails, so
\* an iteration that can run does run.
SpecFetchFair == SpecFetch /\ WF_vars(FetchStep)

\* The variables of a run of main().
mainVars == <<cred, stateFile, remote, srvFilter, pc, last_time, trades, skip,
              rows, outFile, outClosed, netCalls, res, obs, prev, exported,
              clean, req>>

\* A configured client, and no run of main().
AtRest ==
  /\ cred = CredFile(TRUE, "key", "secret", NoStart)
  /\ stateFile = Absent
  /\ remote = <<>>
  /\ srvFilter = "none"
  /\ pc = "idle"
  /\ last_time = -1
  /\ trades = <<>>
  /\ skip = 0
  /\ rows = <<>>
  /\ outFile = <<>>
  /\ outClosed = FALSE
  /\ netCalls = 0
  /\ res = ""
  /\ obs = NoObs
  /\ prev = NoPrev
  /\ exported = {}
  /\ clean = TRUE
  /\ req = NoReq

\* ------------------------------------------------- sign_request on its own
\* Two calls on one client: the second with one byte of one argument
\* replaced, or with the same query_params built in another order.
InitSign ==
  /\ AtRest
  /\ sg \in {[st |-> "in", kind |-> "", a |-> x, b |-> x, f |-> "", old |-> 0,
              new |-> 0, sa |-> sign_request(x), sb |-> sign_request(x)] :
               x \in SignInputs}
  /\ race = NoRace

SignEdited ==
  /\ sg.st = "in"
  /\ \E e \in OneByteEdits(sg.a) :
       sg' = [sg EXCEPT !.st = "out", !.kind = "edit", !.b = e.b, !.f = e.f,
                        !.old = e.old, !.new = e.new,
                        !.sb = sign_request(e.b)]
  /\ UNCHANGED <<mainVars, race>>

SignReordered ==
  /\ sg.st = "in"
  /\ \E d \in Reorderings(sg.a.params) :
       sg' = [sg EXCEPT !.st = "out", !.kind = "reorder", !.b.params = d,
                        !.sb = sign_request([sg.a EXCEPT !.params = d])]
  /\ UNCHANGED <<mainVars, race>>

NextSign ==
  \/ SignEdited
  \/ SignReordered

SpecSign == InitSign /\ [][NextSign]_vars

\* ------------------------------------------------ two runs at the same time
\* Two processes run main() against the same state file and the same
\* exchange; each has its own locals and its own output file.
Procs == {1, 2}

\* The locals of one run about to call load_state; hi0 is (ghost) the highest
\* checkpoint persisted so far when load_state read the file, saved the value
\* the run passed to save_state (-1 if none).
RunAtLoad ==
  [pc |-> "load", last_time |-> -1, trades |-> <<>>, skip |-> 0, out |-> <<>>,
   hi0 |-> -1, saved |-> -1]

\* The checkpoint in a state file, 0 if it holds none.
Persisted(f) == IF f.kind = "val" THEN f.last_time ELSE 0

InitRace ==
  /\ cred = CredFile(TRUE, "key", "secret", NoStart)
  /\ stateFile \in StateFiles
  /\ remote \in RemoteLists
  /\ srvFilter \in {"none", "inclusive"}
  /\ pc = "idle"
  /\ last_time = -1
  /\ trades = <<>>
  /\ skip = 0
  /\ rows = <<>>
  /\ outFile = <<>>
  /\ outClosed = FALSE
  /\ netCalls = 0
  /\ res = ""
  /\ obs = NoObs
  /\ prev = NoPrev
  /\ exported = {}
  /\ clean = TRUE
  /\ req = NoReq
  /\ sg = NoSig
  /\ race = [st |-> "run", procs |-> [p \in Procs |-> RunAtLoad],
             hi |-> Persisted(stateFile)]

\* The variables of a single run, which two concurrent runs do not use.
soloVars == <<cred, srvFilter, pc, last_time, trades, skip, rows, outFile,
              outClosed, netCalls, res, obs, prev, exported, clean, req, sg>>

\* last_time = load_state()
RaceLoad(p) ==
  /\ race.procs[p].pc = "load"
  /\ race' = [race EXCEPT !.procs[p].pc = "fetch",
                          !.procs[p].last_time = LoadStateValue,
                          !.procs[p].hi0 = race.hi]
  /\ UNCHANGED <<soloVars, stateFile, remote>>

\* One iteration of the loop of fetch_trades whose request succeeds.
RaceFetchPage(p) ==
  /\ race.procs[p].pc = "fetch"
  /\ LET r == race.procs[p]
         page == Page(r.last_time, r.skip)
     IN  race' = IF page = <<>>
                 THEN [race EXCEPT !.procs[p].pc = "fetched"]
                 ELSE [race EXCEPT
                         !.procs[p].trades = r.trades \o Kept(page, r.last_time),
                         !.procs[p].skip = NextSkip(r.skip, page),
                         !.procs[p].pc = IF LastPage(page) THEN "fetched"
                                         ELSE "fetch"]
  /\ UNCHANGED <<soloVars, stateFile, remote>>

\* One iteration whose request fails.
RaceFetchFail(p) ==
  /\ race.procs[p].pc = "fetch"
  /\ race' = [race EXCEPT !.procs[p].pc = "fetched"]
  /\ UNCHANGED <<soloVars, stateFile, remote>>

\* `if not new_trades: return`, or transform_trades and the CSV write.
RaceWrite(p) ==
  /\ race.procs[p].pc = "fetched"
  /\ LET r == race.procs[p]
     IN  race' = IF r.trades = <<>>
                 THEN [race EXCEPT !.procs[p].pc = "done"]
                 ELSE [race EXCEPT !.procs[p].out = transform_trades(r.trades),
                                   !.procs[p].pc = "save"]
  /\ UNCHANGED <<soloVars, stateFile, remote>>

\* save_state(latest_time)
RaceSave(p) ==
  /\ race.procs[p].pc = "save"
  /\ LET v == LatestTime(race.procs[p].trades)
     IN  /\ stateFile' = Saved(v)
         /\ race' = [race EXCEPT !.procs[p].pc = "done",
                                 !.procs[p].saved = v,
                                 !.hi = IF v > race.hi THEN v ELSE race.hi]
  /\ UNCHANGED <<soloVars, remote>>

\* The account trades while the runs are under way.
RaceAddTrade ==
  /\ \E p \in Procs : race.procs[p].pc \in {"fetch", "fetched"}
  /\ Len(remote) < MaxRemote
  /\ \E c \in Times : remote' = <<Trade(Len(remote) + 1, c)>> \o remote
  /\ UNCHANGED <<soloVars, stateFile, race>>

NextRace ==
  \/ \E p \in Procs : RaceLoad(p)
  \/ \E p \in Procs : RaceFetchPage(p)
  \/ \E p \in Procs : RaceFetchFail(p)
  \/ \E p \in Procs : RaceWrite(p)
  \/ \E p \in Procs : RaceSave(p)
  \/ RaceAddTrade

SpecRace == InitRace /\ [][NextRace]_vars

\* --------------------------------------------- transform_trades on its own
\* Longest list given to transform_trades.
MaxRows == 2

\* A dict with no key.
NoFields == [k \in {} |-> ""]

\* The raw trades: the i-th of a list, with or without a ctime, with or
\* without a side, and with or without the other fields.
RawTrades(i) ==
  {[id |-> i] @@ c @@ sd @@ o :
     c \in {NoFields} \cup {[ctime |-> t] : t \in Times},
     sd \in {NoFields, [side |-> "buy"]},
     o \in {NoFields,
            [symbol |-> "BTCUSDT", qty |-> "1", price |-> "2", fee |-> "3"]}}

\* The non-empty lists of raw trades, in any order of ctime.
RawLists ==
  UNION {{l \in [1..n -> UNION {RawTrades(i) : i \in 1..n}] :
            \A i \in 1..n : l[i] \in RawTrades(i)} : n \in 1..MaxRows}

\* main is about to call transform_trades on any list.
InitTransform ==
  /\ cred = CredFile(TRUE, "key", "secret", NoStart)
  /\ stateFile = Absent
  /\ remote = <<>>
  /\ srvFilter = "none"
  /\ pc = "fetched"
  /\ last_time = -1
  /\ trades \in RawLists
  /\ skip = 0
  /\ rows = <<>>
  /\ outFile = <<>>
  /\ outClosed = FALSE
  /\ netCalls = 0
  /\ res = ""
  /\ obs = NoObs
  /\ prev = NoPrev
  /\ exported = {}
  /\ clean = TRUE
  /\ req = NoReq
  /\ sg = NoSig
  /\ race = NoRace

NextTransform == Transform

SpecTransform == InitTransform /\ [][NextTransform]_vars

\* --------------------------------------------------- load_state on its own
\* The credentials files load_state can find, with any start_time.
LoadCreds ==
  {CredFile(FALSE, "", "", NoStart)}
    \cup {CredFile(TRUE, a, s, st) :
            a \in {"", "key"}, s \in {"", "secret"},
            st \in {NoStart, BadStart} \cup {IsoStart(t) : t \in 0..MaxTime}}

\* The state files load_state can find: none, a JSON object without the
\* last_time key, or a saved checkpoint.
LoadStateFiles == {Absent, NoKey} \cup {Saved(t) : t \in 0..MaxTime}

\* One call of load_state, with any two files.
InitLoad ==
  /\ cred \in LoadCreds
  /\ stateFile \in LoadStateFiles
  /\ remote = <<>>
  /\ srvFilter = "none"
  /\ pc = "load"
  /\ last_time = -1
  /\ trades = <<>>
  /\ skip = 0
  /\ rows = <<>>
  /\ outFile = <<>>
  /\ outClosed = FALSE
  /\ netCalls = 0
  /\ res = ""
  /\ obs = [NoObs EXCEPT !.ckpt0 = stateFile]
  /\ prev = NoPrev
  /\ exported = {}
  /\ clean = TRUE
  /\ req = NoReq
  /\ sg = NoSig
  /\ race = NoRace

NextLoad ==
  \/ LoadStateOk
  \/ LoadStateFail

SpecLoad == InitLoad /\ [][NextLoad]_vars

\* ============================================================ properties
\* The trades whose rows are in the output file of the current run.
Written == Ids(Sources(outFile))

\* The remote has not changed since the run before the current one began.
Static == ~prev.grew /\ ~obs.grew

\* No other trade of the remote has the creation timestamp of tr.
UniqueTime(tr) ==
  \A i \in 1..Len(remote) : remote[i].ctime = tr.ctime => remote[i] = tr

\* The fetch of the current run is over.
Fetched == pc \in {"fetched", "write", "save"} \/ (pc = "done" /\ obs.fpSeen)

\* C1: if the run before was cut short by a page failure and advanced the
\* checkpoint, and the current run fetched to the end with the remote
\* unchanged (no output or checkpoint write having failed so far), then every remote trade newer than the earlier run's starting
\* checkpoint (and not sharing its timestamp with another trade) has been
\* exported by one of the two runs.
C1_PartialFailureNoGaps ==
  ( /\ pc = "done"
    /\ prev.res = "ok" /\ prev.fail = "page"
    /\ res \in {"ok", "no_trades"} /\ obs.fail = ""
    /\ clean /\ Static )
  => \A i \in 1..Len(remote) :
       (remote[i].ctime > prev.start /\ UniqueTime(remote[i]))
         => remote[i].id \in (exported \cup Written)

\* C2: fetch_trades(t) never holds (and so never returns) a record whose
\* creation timestamp is less than or equal to t.
C2_FetchNewerOnly ==
  \A i \in 1..Len(trades) : trades[i].ctime > last_time

\* C2 witness: a fetch that paged through the whole unfiltered list, which
\* holds a record at or before the checkpoint, and returned something.
C2_Witness ==
  /\ pc = "fetched"
  /\ srvFilter = "none" /\ obs.fail = "" /\ ~obs.grew
  /\ trades # <<>>
  /\ \E i \in 1..Len(remote) : remote[i].ctime <= last_time

\* C3: a run that writes the checkpoint writes a value that is at least the
\* value load_state returned to it, and at least the value that was persisted
\* before: the checkpoint never decreases.
C3_Monotonic ==
  (pc # "idle" /\ (stateFile # obs.ckpt0 \/ res = "ok"))
  => /\ stateFile.kind = "val"
     /\ stateFile.last_time >= last_time
     /\ obs.ckpt0.kind = "val" => stateFile.last_time >= obs.ckpt0.last_time

\* C3 witness: a successful run that began with a persisted checkpoint, after
\* an earlier run.
C3_Witness ==
  /\ pc = "done" /\ res = "ok"
  /\ prev.res = "ok"
  /\ obs.ckpt0.kind = "val"
  /\ stateFile.last_time > obs.ckpt0.last_time

\* C4: the checkpoint a run writes is the maximum creation timestamp over
\* the trades it wrote to its output file, which are the trades fetch_trades
\* returned.
C4_SavedIsMaxExported ==
  (pc = "done" /\ (stateFile # obs.ckpt0 \/ res = "ok"))
  => /\ outFile # <<>>
     /\ stateFile = Saved(SetMax({outFile[i].src.ctime : i \in 1..Len(outFile)}))
     /\ Len(outFile) = Len(trades)
     /\ Written = Ids(trades)

\* C4 witness: a run saved the checkpoint after fetching a later trade
\* before an earlier one.
C4_Witness ==
  /\ pc = "done" /\ res = "ok"
  /\ Len(trades) >= 2
  /\ trades[1].ctime > trades[Len(trades)].ctime

\* C5 as stated: whenever a run follows another with no new remote trades
\* since that one began, it writes no output and leaves the checkpoint as it
\* found it.
C5_IdempotentAlways ==
  (pc = "done" /\ prev.res # "" /\ Static)
  => (outFile = <<>> /\ stateFile = obs.ckpt0)

\* C5 amended: the same, when the earlier run ended normally (its page loop
\* was not cut short by a failure, and its output and checkpoint writes did
\* not fail); the later run then opens no output file at all.
C5_Idempotent ==
  ( /\ pc = "done"
    /\ prev.res \in {"ok", "no_trades", "config_error"} /\ prev.fail = ""
    /\ Static )
  => (outFile = <<>> /\ ~outClosed /\ stateFile = obs.ckpt0)

\* C5 witness: a run that exported trades is followed, with the remote
\* unchanged, by a run that queried the exchange and found nothing new.
C5_Witness ==
  /\ pc = "done" /\ res = "no_trades" /\ netCalls > 0
  /\ prev.res = "ok" /\ prev.fail = ""
  /\ Static

\* C6: as long as every earlier run that wrote output also saved its
\* checkpoint, no trade written by an earlier run is written again.
C6_NoDuplicateExport ==
  clean => Written \cap exported = {}

\* C6 witness: a run cut short by a page failure exported some trades, and
\* the next run exported others.
C6_Witness ==
  /\ pc = "done" /\ res = "ok" /\ clean
  /\ prev.res = "ok" /\ prev.fail = "page"
  /\ exported # {} /\ Written # {}

\* C7: the checkpoint changes during a run only as its last step, with the
\* output file closed and holding every row of the run; a run whose output
\* write failed leaves the checkpoint as it found it.
C7_SaveAfterOutput ==
  pc # "idle"
  => /\ stateFile # obs.ckpt0
          => /\ pc = "done"
             /\ outClosed /\ outFile = rows
             /\ Len(rows) = Len(trades) /\ rows # <<>>
     /\ res = "write_error" => stateFile = obs.ckpt0

\* C7 witness: a run whose output write failed after some rows, leaving the
\* persisted checkpoint of an earlier run in place.
C7_Witness ==
  /\ pc = "done" /\ res = "write_error"
  /\ outFile # <<>>
  /\ prev.res = "ok" /\ stateFile.kind = "val"

\* The configuration errors of claim C8, read off the files a run finds.
ConfigError ==
  \/ ~cred.exists
  \/ cred.api_key = "" \/ cred.secret_key = ""
  \/ (cred.start_time.fmt = "bad" /\ obs.ckpt0.kind = "absent")

\* C8: a run that finds a configuration error issues no network request,
\* writes neither the checkpoint nor an output file, and ends with the error.
C8_ConfigErrorAborts ==
  (pc # "idle" /\ ConfigError)
  => /\ netCalls = 0
     /\ stateFile = obs.ckpt0
     /\ outFile = <<>> /\ ~outClosed
     /\ pc \in {"creds", "client", "load", "done"}
     /\ pc = "done" => res = "config_error"

\* C8 witness: a run ended on a malformed start_time while the exchange held
\* trades.
C8_Witness ==
  /\ pc = "done" /\ res = "config_error"
  /\ cred.start_time.fmt = "bad" /\ stateFile.kind = "absent"
  /\ remote # <<>>

\* C9 as stated: when the first page holds only trades at or before the
\* checkpoint, whatever its size, the fetch returns nothing, no output is
\* written and the checkpoint is unchanged.
C9_OldFirstPageAnySize ==
  (Fetched /\ obs.fpSeen /\ obs.fpOld)
  => (trades = <<>> /\ outFile = <<>> /\ stateFile = obs.ckpt0)

\* C9 amended: the same, when that first page is shorter than limit.
C9_OldShortFirstPage ==
  (Fetched /\ obs.fpSeen /\ obs.fpOld /\ obs.fpLen < Limit)
  => (trades = <<>> /\ outFile = <<>> /\ stateFile = obs.ckpt0)

\* C9 witness: a run ended after a non-empty first page, shorter than limit,
\* of trades at or before the checkpoint.
C9_Witness ==
  /\ pc = "done" /\ res = "no_trades"
  /\ obs.fpSeen /\ obs.fpOld
  /\ obs.fpLen > 0 /\ obs.fpLen < Limit

\* C10: a run without failure, over a remote that does not change and holds
\* only trades newer than the checkpoint, writes exactly one row per remote
\* trade and sets the checkpoint to the maximum of their timestamps.
C10_FailureFreeComplete ==
  ( /\ pc = "done"
    /\ res \notin {"config_error", "write_error", "save_error"}
    /\ obs.fail = "" /\ ~obs.grew
    /\ remote # <<>>
    /\ \A i \in 1..Len(remote) : remote[i].ctime > last_time )
  => /\ res = "ok"
     /\ Len(outFile) = Len(remote)
     /\ Written = Ids(remote)
     /\ stateFile = Saved(SetMax({remote[i].ctime : i \in 1..Len(remote)}))

\* C10 witness: such a run over more trades than one page holds.
C10_Witness ==
  /\ pc = "done" /\ res = "ok"
  /\ obs.fail = "" /\ ~obs.grew
  /\ Len(remote) > Limit
  /\ netCalls >= 2
  /\ \A i \in 1..Len(remote) : remote[i].ctime > last_time

C12_OrderInvariant ==
  ( /\ sg.st = "out"
    /\ {sg.a.params[i] : i \in 1..Len(sg.a.params)}
         = {sg.b.params[i] : i \in 1..Len(sg.b.params)}
    /\ sg.a.nonce = sg.b.nonce /\ sg.a.timestamp = sg.b.timestamp
    /\ sg.a.body = sg.b.body )
  => sg.sa = sg.sb

\* C12 witness: two calls that returned a signature for the same two items
\* in opposite insertion orders.
C12_Witness ==
  /\ sg.st = "out" /\ sg.kind = "reorder"
  /\ Len(sg.a.params) >= 2
  /\ sg.a.params # sg.b.params
  /\ sg.sa.ok /\ sg.sb.ok

C14_FreshNonce16Bytes ==
  req.n > 0
  => /\ req.nonce.gen = req.n
     /\ req.nonce.hex >= TokenHexLen(16)

\* C15 as stated: load_state returns the persisted checkpoint when there is one;
\* whenever there is none it uses the configured start_time (raising if it is
\* malformed), and it returns 0 only when there is neither.
C15_StartTimeWheneverNoCheckpoint ==
  pc \in {"fetch", "done"}
  => IF stateFile.kind = "val"
     THEN pc = "fetch" /\ last_time = stateFile.last_time
     ELSE IF cred.exists /\ cred.start_time.fmt = "iso"
     THEN pc = "fetch" /\ last_time = IsoToMs(cred.start_time)
     ELSE IF cred.exists /\ cred.start_time.fmt = "bad"
     THEN pc = "done" /\ res = "config_error"
     ELSE pc = "fetch" /\ last_time = 0

\* C15 amended: with a state file load_state returns its last_time, or 0
\* when it holds none, and does not read start_time; only without a state
\* file does it use the configured start_time (raising if it is malformed),
\* and 0 when none is configured.
C15_StartTimeOnlyWithoutStateFile ==
  pc \in {"fetch", "done"}
  => IF stateFile.kind = "val"
     THEN pc = "fetch" /\ last_time = stateFile.last_time
     ELSE IF stateFile.kind = "nokey"
     THEN pc = "fetch" /\ last_time = 0
     ELSE IF cred.exists /\ cred.start_time.fmt = "iso"
     THEN pc = "fetch" /\ last_time = IsoToMs(cred.start_time)
     ELSE IF cred.exists /\ cred.start_time.fmt = "bad"
     THEN pc = "done" /\ res = "config_error"
     ELSE pc = "fetch" /\ last_time = 0

\* C15 witness: load_state returned 0 for a state file without last_time
\* although a later start_time is configured.
C15_Witness ==
  /\ pc = "fetch"
  /\ stateFile.kind = "nokey"
  /\ cred.exists /\ cred.start_time.fmt = "iso"
  /\ IsoToMs(cred.start_time) > 0
  /\ last_time = 0

\* C16: the request of every iteration carries startTime = since_timestamp,
\* the page size limit, and skip = the number of entries received in the
\* pages before it (kept or not): 0 at first, and never less than before.
C16_RequestParams ==
  /\ req.n > 0
       => /\ req.n = netCalls
          /\ req.startTime = last_time
          /\ req.limit = Limit
          /\ req.skip = req.before
          /\ req.n = 1 => req.skip = 0
          /\ skip >= req.skip
  /\ pc = "fetch" => skip = Received

\* C16 witness: a second request whose skip counts entries of the first
\* page that the filter dropped.
C16_Witness ==
  /\ req.n >= 2
  /\ req.skip > Len(trades)
  /\ obs.fail = ""

\* While the loop runs every page so far was full and without failure; when
\* it has ended, the latest request is the one whose page was empty, shorter
\* than limit, or failed.
EndsAtFirstEndingPage ==
  /\ (pc = "fetch" /\ req.n > 0) => (req.len = Limit /\ obs.fail = "")
  /\ pc = "fetched"
       => /\ req.n = netCalls /\ req.n > 0
          /\ req.len < Limit \/ obs.fail # ""

\* C17: over a finite remote the loop of fetch_trades ends, at the first page
\* that is empty, shorter than limit, or failed, and no request follows it.
C17_LoopEnds ==
  /\ []EndsAtFirstEndingPage
  /\ [][pc = "fetched" => netCalls' = netCalls]_vars
  /\ (pc = "fetch") ~> (pc = "fetched")

\* C17 witness: a call that ended, without failure, after more than one
\* request while the remote grew.
C17_Witness ==
  /\ pc = "fetched"
  /\ netCalls >= 2
  /\ obs.fail = "" /\ obs.grew

\* The rows are one per input trade, in ascending order of ctime.
OneRowPerTradeSorted ==
  /\ Len(rows) = Len(trades)
  /\ \A i \in 1..Len(trades) :
       Cardinality({j \in 1..Len(rows) : rows[j].src = trades[i]}) = 1
  /\ \A i, j \in 1..Len(rows) :
       (i < j /\ "ctime" \in DOMAIN rows[i].src /\ "ctime" \in DOMAIN rows[j].src)
         => rows[i].src.ctime <= rows[j].src.ctime

\* The columns made from the fields other than ctime are blank when the
\* field is missing.
MissingFieldBlank ==
  \A i \in 1..Len(rows) :
    /\ "symbol" \notin DOMAIN rows[i].src => rows[i].Symbol = ""
    /\ "side" \notin DOMAIN rows[i].src => rows[i].Side = ""
    /\ "qty" \notin DOMAIN rows[i].src => rows[i].Quantity = ""
    /\ "price" \notin DOMAIN rows[i].src => rows[i].Price = ""
    /\ "fee" \notin DOMAIN rows[i].src => rows[i].Commission = ""

\* C18 as stated: transform_trades returns one row per input trade, in
\* ascending order of ctime whatever the order of the input, and a trade that
\* lacks a field (ctime included) gets a row whose columns made from it are
\* blank.
C18_OneRowPerTradeBlankIfMissing ==
  pc = "write"
  => /\ OneRowPerTradeSorted
     /\ MissingFieldBlank
     /\ \A i \in 1..Len(rows) :
          "ctime" \notin DOMAIN rows[i].src => rows[i].Time = <<>>

\* C18 amended: the same for symbol, side, qty, price and fee; a trade that
\* lacks ctime is handled as a trade of ctime 0: its row shows the epoch in
\* the Date and Time columns and is sorted accordingly.
C18_OneRowPerTradeEpochIfNoCtime ==
  pc = "write"
  => /\ OneRowPerTradeSorted
     /\ MissingFieldBlank
     /\ \A i \in 1..Len(rows) :
          "ctime" \notin DOMAIN rows[i].src => rows[i].Time = <<0>>
     /\ \A i, j \in 1..Len(rows) :
          i < j => CtimeOf(rows[i].src) <= CtimeOf(rows[j].src)

\* C18 witness: two trades given latest first come out earliest first, one
\* of them lacking fields.
C18_Witness ==
  /\ pc = "write"
  /\ Len(rows) = 2
  /\ rows[1].src = trades[2]
  /\ CtimeOf(trades[2]) < CtimeOf(trades[1])
  /\ \E i \in 1..2 : "side" \notin DOMAIN rows[i].src

\* The ids of the trades in the output file of run p.
WrittenBy(p) == Ids(Sources(race.procs[p].out))

\* C19: two simultaneous runs can leave a persisted checkpoint lower than
\* one persisted earlier; this happens only through a run that read the
\* checkpoint before the higher value was saved (the two runs overlapped),
\* while each run alone saves more than the value it read.
C19_LoweredOnlyByOverlap ==
  /\ \A p \in Procs :
       race.procs[p].saved # -1 => race.procs[p].saved > race.procs[p].last_time
  /\ Persisted(stateFile) < race.hi
       => \E p \in Procs :
            /\ race.procs[p].pc = "done"
            /\ race.procs[p].saved = Persisted(stateFile)
            /\ race.procs[p].hi0 < race.hi

\* C19 witness: both runs have ended, the persisted checkpoint is lower than
\* a value persisted earlier, and a trade is in the output of both runs.
C19_Witness ==
  /\ \A p \in Procs : race.procs[p].pc = "done" /\ race.procs[p].saved # -1
  /\ Persisted(stateFile) < race.hi
  /\ WrittenBy(1) \cap WrittenBy(2) # {}

\* No id occurs twice in `trades`.
NoDuplicateIds ==
  \A i, j \in 1..Len(trades) : i # j => trades[i].id # trades[j].id

\* C20 as stated: the list a call of fetch_trades accumulates never holds a
\* trade twice, also when the remote grows between two page requests.
C20_NoDuplicateAlways == NoDuplicateIds

\* C20 amended: the same, as long as the remote has not grown between two
\* page requests of the call.
C20_NoDuplicateIfStatic == ~obs.grew => NoDuplicateIds

\* C20 witness: a call over an unchanged remote returned trades of two pages.
C20_Witness ==
  /\ pc = "fetched"
  /\ ~obs.grew /\ obs.fail = ""
  /\ netCalls >= 2
  /\ Len(trades) > Limit

====
